---- MODULE Spec2Model ----
(***************************************************************************)
(* Osiris/data_IO.py: construction of normalised training data.            *)
(*                                                                         *)
(*   Spec        import_HairpinTrainingData: the scan of the alignment     *)
(*               records, the readsThreshold filter, the parallel          *)
(*               per-bucket normalisation tasks and the final merge.       *)
(*   SpecScan    the scan of the alignment records alone, over every read  *)
(*               sequence made of a few fragments.                         *)
(*   SpecSerial  serial_calculate_normalisedEvents on a flat list of       *)
(*               fast5 files, statement by statement.                      *)
(*   SpecAlign   alignAndSort: the split of alignments.sorted.bam into one *)
(*               BAM file per reference, record by record.                 *)
(*                                                                         *)
(* Floating point values are modelled as exact rationals <<num, den>>;     *)
(* a zero denominator stands for the non-finite results of a numpy         *)
(* division by zero (inf, -inf, nan).                                      *)
(***************************************************************************)
EXTENDS Integers, Sequences, FiniteSets, TLC

\* ------------------------------------------------------------------ bounds
MaxEvents == 3      \* number of events of the freely chosen file of a serial run
MaxFiles == 2       \* length of the fast5Files list of one serial run
MaxRecords == 3     \* number of records of the BAM file of a full run
MaxScanRecords == 2 \* number of records of the BAM file when only scanned
MaxBlocks == 2      \* number of fragments a read sequence is made of
MaxThreshold == 2   \* largest readsThreshold
MaxAlignRecords == 2    \* number of records of alignments.sorted.bam
MaxQueryLength == 5     \* largest query_length of a record

\* --------------------------------------------------------- exact rationals
Abs(n) == IF n < 0 THEN -n ELSE n

Sgn(n) == IF n < 0 THEN -1 ELSE IF n > 0 THEN 1 ELSE 0

RECURSIVE GCD(_, _)
GCD(m, n) == IF n = 0 THEN m ELSE GCD(n, m % n)

Rat(n, d) ==
    IF d = 0 THEN <<Sgn(n), 0>>
    ELSE LET g == GCD(Abs(n), Abs(d))
             s == IF d < 0 THEN -1 ELSE 1
         IN  <<(s * n) \div g, (s * d) \div g>>

Zero == Rat(0, 1)

RatAdd(p, q) == Rat(p[1] * q[2] + q[1] * p[2], p[2] * q[2])

RatSub(p, q) == Rat(p[1] * q[2] - q[1] * p[2], p[2] * q[2])

RatMul(p, q) == Rat(p[1] * q[1], p[2] * q[2])

RatDiv(p, q) == Rat(p[1] * q[2], p[2] * q[1])

\* ------------------------------------------------------------- pore model
\* import_poreModel: kmer -> <<mean, std>>, as read from the model file.
kmer2MeanStd ==
    [k \in {"AAAAA", "CCCCC"} |->
        IF k = "AAAAA" THEN <<Rat(1, 1), Rat(1, 1)>> ELSE <<Rat(2, 1), Rat(2, 1)>>]

\* ------------------------------------------------- raw signal containers
\* An event row of the Events dataset: event[0] mean, event[4] called 5mer,
\* event[7] probability of the call (in hundredths).
Event(mean, kmer, p) == [mean |-> Rat(mean, 1), model_5mer |-> kmer, p_model_state |-> p]

EventSet ==
    { Event(1, "AAAAA", 31), Event(1, "CCCCC", 31), Event(2, "CCCCC", 31),
      Event(1, "AAAAA", 30),
      Event(1, "GGGGG", 31), Event(1, "GGGGG", 30) }

\* A fast5 file is unreadable, lacks the Events dataset, or holds events.
Corrupt == [kind |-> "corrupt", events |-> <<>>]

NoPath == [kind |-> "nopath", events |-> <<>>]

Fast5(events) == [kind |-> "events", events |-> events]

\* Every file of at most MaxEvents events.
Contents ==
    {Corrupt, NoPath} \cup
    UNION { {Fast5(es) : es \in [1..n -> EventSet]} : n \in 0..MaxEvents }

\* Two fixed files that can be normalised.
Good1 == Fast5(<<Event(1, "AAAAA", 31), Event(2, "CCCCC", 31)>>)

Good2 == Fast5(<<Event(2, "AAAAA", 31), Event(1, "AAAAA", 30), Event(1, "CCCCC", 31)>>)

\* The file lists of a serial run: lists of the file Good2, one of them
\* possibly replaced by any file of Contents.
FileLists(len) ==
    LET fixed == [n \in 1..len |-> Good2] IN
    {fixed} \cup { [fixed EXCEPT ![i] = c] : i \in 1..len, c \in Contents }

\* ------------------------------------------------- shift/scale estimator
ConfidenceThreshold == 30

Qualifies(event) == event.p_model_state > ConfidenceThreshold

ZeroA == <<<<Zero, Zero>>, <<Zero, Zero>>>>

Zerob == <<Zero, Zero>>

\* UpdateA with A[1,0] assigned instead of accumulated.
UpdateA_Assign(M, event) ==
    LET model_mean == kmer2MeanStd[event.model_5mer][1]
        model_std == kmer2MeanStd[event.model_5mer][2]
        w == RatDiv(Rat(1, 1), RatMul(model_std, model_std))
    IN  <<<<RatAdd(M[1][1], w), M[1][2]>>,
          <<RatMul(w, model_mean),
            RatAdd(M[2][2], RatMul(w, RatMul(model_mean, model_mean)))>>>>

\* One iteration of the accumulation loop on a qualifying event.
UpdateA(M, event) ==
    LET model_mean == kmer2MeanStd[event.model_5mer][1]
        model_std == kmer2MeanStd[event.model_5mer][2]
        w == RatDiv(Rat(1, 1), RatMul(model_std, model_std))
    IN  <<<<RatAdd(M[1][1], w), M[1][2]>>,
          <<RatAdd(M[2][1], RatMul(w, model_mean)),
            RatAdd(M[2][2], RatMul(w, RatMul(model_mean, model_mean)))>>>>

Updateb(v, event) ==
    LET model_mean == kmer2MeanStd[event.model_5mer][1]
        model_std == kmer2MeanStd[event.model_5mer][2]
        w == RatDiv(Rat(1, 1), RatMul(model_std, model_std))
    IN  <<RatAdd(v[1], RatMul(w, event.mean)),
          RatAdd(v[2], RatMul(w, RatMul(event.mean, model_mean)))>>

\* The accumulation loop over Events; KeyError when a qualifying event's
\* 5mer is not a key of the pore model.
RECURSIVE Accumulate(_, _, _)
Accumulate(events, M, v) ==
    IF events = <<>> THEN [status |-> "ok", A |-> M, b |-> v]
    ELSE LET event == Head(events) IN
         IF ~Qualifies(event) THEN Accumulate(Tail(events), M, v)
         ELSE IF event.model_5mer \notin DOMAIN kmer2MeanStd
              THEN [status |-> "KeyError", A |-> M, b |-> v]
              ELSE Accumulate(Tail(events), UpdateA(M, event), Updateb(v, event))

Symmetrise(M) == <<<<M[1][1], M[2][1]>>, <<M[2][1], M[2][2]>>>>

Det(M) == RatSub(RatMul(M[1][1], M[2][2]), RatMul(M[1][2], M[2][1]))

\* Solve with x[0] and x[1] read in the wrong order.
Solve_Swapped(M, v) ==
    IF Det(M) = Zero THEN [status |-> "LinAlgError", shift |-> Zero, scale |-> Zero]
    ELSE [status |-> "ok",
          scale |-> RatDiv(RatSub(RatMul(v[1], M[2][2]), RatMul(M[1][2], v[2])), Det(M)),
          shift |-> RatDiv(RatSub(RatMul(M[1][1], v[2]), RatMul(M[2][1], v[1])), Det(M))]

\* np.linalg.solve(A, b): LinAlgError on a singular matrix.
Solve(M, v) ==
    IF Det(M) = Zero THEN [status |-> "LinAlgError", shift |-> Zero, scale |-> Zero]
    ELSE [status |-> "ok",
          shift |-> RatDiv(RatSub(RatMul(v[1], M[2][2]), RatMul(M[1][2], v[2])), Det(M)),
          scale |-> RatDiv(RatSub(RatMul(M[1][1], v[2]), RatMul(M[2][1], v[1])), Det(M))]

\* Accumulation, symmetry and solve for one file's events.
Calibration(events) ==
    LET r == Accumulate(events, ZeroA, Zerob) IN
    IF r.status # "ok" THEN [status |-> r.status, shift |-> Zero, scale |-> Zero]
    ELSE Solve(Symmetrise(r.A), r.b)

\* ------------------------------------------------------- read normaliser
\* NormaliseEvent with the shift removed before the division.
NormaliseEvent_ShiftFirst(event, sh, sc) == RatDiv(RatSub(event.mean, sh), sc)

NormaliseEvent(event, sh, sc) == RatSub(RatDiv(event.mean, sc), sh)

RECURSIVE NormaliseEvents(_, _, _)
NormaliseEvents(events, sh, sc) ==
    IF events = <<>> THEN <<>>
    ELSE IF Qualifies(Head(events))
         THEN <<NormaliseEvent(Head(events), sh, sc)>> \o NormaliseEvents(Tail(events), sh, sc)
         ELSE NormaliseEvents(Tail(events), sh, sc)

\* What the body of the loop over fast5Files makes of one file: the
\* exception it raises, or the normalised events it appends.
NormaliseRead(file) ==
    IF file.kind = "corrupt" THEN [status |-> "IOError", normalisedEvents |-> <<>>]
    ELSE IF file.kind = "nopath" THEN [status |-> "KeyError", normalisedEvents |-> <<>>]
    ELSE LET c == Calibration(file.events) IN
         IF c.status # "ok" THEN [status |-> c.status, normalisedEvents |-> <<>>]
         ELSE [status |-> "ok",
               normalisedEvents |-> NormaliseEvents(file.events, c.shift, c.scale)]

\* ------------------------------------------------------- motif resolver
\* Python's s[i:j] for 0 <= i, on a sequence of bases.
Slice(s, i, j) == SubSeq(s, i + 1, IF j > Len(s) THEN Len(s) ELSE j)

Complement(base) ==
    CASE base = "A" -> "T" [] base = "T" -> "A" [] base = "C" -> "G" [] base = "G" -> "C"
      [] OTHER -> base

reverseComplement(s) == [i \in 1..Len(s) |-> Complement(s[Len(s) + 1 - i])]

\* The reference around the redundant A, and the location of the A.
reference == <<"G","G","T","C", "C","C","C","A","C","C","C", "C","T","G","A">>

redundant_A_Loc == 7

start == Slice(reference, redundant_A_Loc - 7, redundant_A_Loc - 3)

end == Slice(reference, redundant_A_Loc + 4, redundant_A_Loc + 8)

\* [s.start() for s in re.finditer('(?=' + motif + ')', sequence)], from index i on.
RECURSIVE FindAllFrom(_, _, _)
FindAllFrom(motif, s, i) ==
    IF i > Len(s) THEN <<>>
    ELSE IF Slice(s, i, i + Len(motif)) = motif
         THEN <<i>> \o FindAllFrom(motif, s, i + 1)
         ELSE FindAllFrom(motif, s, i + 1)

FindAll(motif, s) == FindAllFrom(motif, s, 0)

\* str.find: the lowest index of sub in s, or -1.
Find(sub, s) ==
    LET at == {i \in 0..Len(s) : Slice(s, i, i + Len(sub)) = sub} IN
    IF at = {} THEN -1 ELSE CHOOSE i \in at : \A j \in at : i <= j

IsCandidate(candidate) == Len(candidate) = 7 /\ candidate[4] = "A"

\* The inner loop over end_indices for one si (already moved past start).
RECURSIVE CandidatesOfStart(_, _, _)
CandidatesOfStart(s, si, end_indices) ==
    IF end_indices = <<>> THEN <<>>
    ELSE LET ei == Head(end_indices)
             rest == CandidatesOfStart(s, si, Tail(end_indices))
         IN  IF ei > si /\ IsCandidate(Slice(s, si, ei))
             THEN <<Slice(s, si, ei)>> \o rest
             ELSE rest

\* The outer loop over start_indices.
RECURSIVE CandidatesOfStarts(_, _, _)
CandidatesOfStarts(s, start_indices, end_indices) ==
    IF start_indices = <<>> THEN <<>>
    ELSE CandidatesOfStart(s, Head(start_indices) + Len(start), end_indices)
            \o CandidatesOfStarts(s, Tail(start_indices), end_indices)

Candidates(s) == CandidatesOfStarts(s, FindAll(start, s), FindAll(end, s))

\* ExactlyOne accepting any non-empty list of candidates.
ExactlyOne_AtLeastOne(candidates) == Len(candidates) >= 1

\* len(candidates) == 1
ExactlyOne(candidates) == Len(candidates) = 1

\* HairpinOrder without the test for a missing reverse complement.
HairpinOrder_NoMissing(idx_brdu, idx_a) == idx_brdu < idx_a

\* idx_brdu != -1 and idx_brdu < idx_a
HairpinOrder(idx_brdu, idx_a) == idx_brdu # -1 /\ idx_brdu < idx_a

\* The bucket the record's read is added to, or <<>> when it is discarded.
BucketOf(s) ==
    LET candidates == Candidates(s) IN
    IF ExactlyOne(candidates)
          /\ HairpinOrder(Find(reverseComplement(candidates[1]), s), Find(candidates[1], s))
    THEN candidates[1]
    ELSE <<>>

\* kmer2Files after the record (s, id).
AddRead(k2f, s, id) ==
    LET c == BucketOf(s) IN
    IF c = <<>> THEN k2f
    ELSE IF c \in DOMAIN k2f
         THEN [k2f EXCEPT ![c] = k2f[c] \o <<id>>]
         ELSE (c :> <<id>>) @@ k2f

\* --------------------------------------------------------- the BAM file
Kmer1 == Slice(reference, redundant_A_Loc - 3, redundant_A_Loc + 4)

Kmer2 == <<"T","T","T","A","T","T","T">>

KmerT == <<"C","C","C","T","C","C","C">>

\* The fragments read sequences are made of: a hairpin read (the reverse
\* complement of the first 7mer, then the 7mer between the motifs), the two
\* 7mers between the motifs, a 7mer without the A between the motifs, the
\* reverse complements, the first 7mer on its own, and a filler base.
Blocks ==
    { reverseComplement(Kmer1) \o start \o Kmer1 \o end,
      start \o Kmer1 \o end, start \o Kmer2 \o end, start \o KmerT \o end,
      reverseComplement(Kmer1), reverseComplement(Kmer2), Kmer1, <<"G">> }

RECURSIVE Concat(_)
Concat(ss) == IF ss = <<>> THEN <<>> ELSE Head(ss) \o Concat(Tail(ss))

Sequences == { Concat(bs) : bs \in UNION { [1..n -> Blocks] : n \in 0..MaxBlocks } }

\* The read sequences of the records of a full run.
RunSequences ==
    { reverseComplement(Kmer1) \o start \o Kmer1 \o end,
      reverseComplement(Kmer2) \o start \o Kmer2 \o end,
      start \o Kmer1 \o end }

\* query_name is the path of the read's fast5 file.
ReadIDs == {"r1", "r2", "r3", "r4"}

ScanReadIDs == {"r1", "r2"}

\* The fast5 files of a full run: two that can be normalised, one without the
\* Events dataset, one that cannot be opened.
fast5 ==
    [id \in ReadIDs |->
        CASE id = "r1" -> Good1 [] id = "r2" -> Good2 [] id = "r3" -> NoPath [] OTHER -> Corrupt]

EmptyMap == [k \in {} |-> <<>>]

\* ---------------------------------------------------- alignAndSort data
\* The value pysam gives for a field that is not available.
None == -1

\* sam_file.lengths: the length of each reference, in the order of
\* sam_file.references.
lengths == <<5, 10>>

\* sam_file.lengths[reference_id], with Python's indexing from the end for
\* the reference_id -1 of an unmapped record.
RefLength(reference_id) ==
    IF reference_id < 0 THEN lengths[Len(lengths) + 1 + reference_id]
    ELSE lengths[reference_id + 1]

\* The records of alignments.sorted.bam.  An unmapped record has reference_id
\* -1 and no aend; a mapped record lies inside its reference.  bwa mem writes
\* the read sequence in every record, so query_length is at least 1.
MappedRecords ==
    { [reference_id |-> r, pos |-> p, aend |-> e, query_alignment_length |-> qal,
       query_length |-> ql, is_reverse |-> rev] :
        r \in 0..(Len(lengths) - 1), p \in 0..1, e \in 0..10, qal \in (0..MaxQueryLength) \cup {None},
        ql \in 1..MaxQueryLength, rev \in BOOLEAN }

Records ==
    { m \in MappedRecords :
        /\ m.pos <= m.aend
        /\ m.aend <= RefLength(m.reference_id)
        /\ m.query_alignment_length <= m.query_length }
    \cup
    { [reference_id |-> -1, pos |-> -1, aend |-> None, query_alignment_length |-> qal,
       query_length |-> ql, is_reverse |-> FALSE] :
        qal \in {0, None}, ql \in 1..MaxQueryLength }

\* The records that come before the last one in the files considered.
LeadingRecords ==
    { [reference_id |-> 0, pos |-> 0, aend |-> 5, query_alignment_length |-> 5,
       query_length |-> 5, is_reverse |-> FALSE],
      [reference_id |-> 1, pos |-> 1, aend |-> 10, query_alignment_length |-> 4,
       query_length |-> 4, is_reverse |-> FALSE],
      [reference_id |-> 1, pos |-> 0, aend |-> 10, query_alignment_length |-> 3,
       query_length |-> 4, is_reverse |-> FALSE],
      [reference_id |-> -1, pos |-> -1, aend |-> None, query_alignment_length |-> 0,
       query_length |-> 3, is_reverse |-> FALSE] }

NoRecord ==
    [reference_id |-> -1, pos |-> -1, aend |-> None, query_alignment_length |-> None,
     query_length |-> 0, is_reverse |-> FALSE]

\* Covers with the bound 0.8 included.
Covers_AtLeast(covered, length) ==
    LET cover == Rat(covered, length)
        bound == Rat(8, 10)
    IN  cover[1] * bound[2] >= bound[1] * cover[2]

\* float(covered) / length > 0.8
Covers(covered, length) ==
    LET cover == Rat(covered, length)
        bound == Rat(8, 10)
    IN  cover[1] * bound[2] > bound[1] * cover[2]

\* record.aend is None or record.query_alignment_length is None
Unavailable(rec) == rec.aend = None \/ rec.query_alignment_length = None

\* ref_cover > 0.8 and query_cover > 0.8 and record.is_reverse == False
PassesQualityControl(rec) ==
    /\ Covers(rec.aend - rec.pos, RefLength(rec.reference_id))
    /\ Covers(rec.query_alignment_length, rec.query_length)
    /\ rec.is_reverse = FALSE

\* ------------------------------------------------------------ the state
VARIABLES
    spc,                \* position in serial_calculate_normalisedEvents
    fast5Files,         \* its argument: the files, by content
    fileIdx,            \* index of f5File in fast5Files
    f,                  \* the h5py handle of the current file
    Events,             \* f[path]
    A, b,               \* the normal equations
    x,                  \* <<shift, scale>>
    normalisedEvents,
    allNormalisedReads

svars == <<spc, fast5Files, fileIdx, f, Events, A, b, x, normalisedEvents, allNormalisedReads>>

VARIABLES
    hpc,                    \* position in import_HairpinTrainingData
    nRecords,               \* records of the BAM file read so far
    sequence, readID,       \* of the record last read
    kmer2Files,
    readsThreshold,
    filteredKmer2Files,
    task,                   \* the call of parallel_calculate_normalisedEvents per key
    dispatched,             \* the keys handed to the workers, in order
    normalisedReadsTuples,
    merged,                 \* entries of normalisedReadsTuples merged so far
    kmer2normalisedReads

hvars == <<hpc, nRecords, sequence, readID, kmer2Files, readsThreshold, filteredKmer2Files,
           task, dispatched, normalisedReadsTuples, merged, kmer2normalisedReads>>

VARIABLES
    apc,                    \* position in alignAndSort
    nAligned,               \* records of alignments.sorted.bam read so far
    record,                 \* the record last read
    out_files               \* the records written to the BAM file of each reference

avars == <<apc, nAligned, record, out_files>>

vars == <<svars, hvars, avars>>

SerialIdle ==
    /\ spc = "idle"
    /\ fast5Files = <<>>
    /\ fileIdx = 0
    /\ f = "none"
    /\ Events = <<>>
    /\ A = ZeroA
    /\ b = Zerob
    /\ x = <<Zero, Zero>>
    /\ normalisedEvents = <<>>
    /\ allNormalisedReads = <<>>

AlignIdle ==
    /\ apc = "idle"
    /\ nAligned = 0
    /\ record = NoRecord
    /\ out_files = [r \in {} |-> <<>>]

HairpinIdle ==
    /\ hpc = "idle"
    /\ nRecords = 0
    /\ sequence = <<>>
    /\ readID = ""
    /\ kmer2Files = EmptyMap
    /\ readsThreshold = 0
    /\ filteredKmer2Files = EmptyMap
    /\ task = EmptyMap
    /\ dispatched = <<>>
    /\ normalisedReadsTuples = <<>>
    /\ merged = 0
    /\ kmer2normalisedReads = EmptyMap

\* ------------------------------------- serial_calculate_normalisedEvents
InitSerial ==
    /\ fast5Files \in UNION { FileLists(n) : n \in 0..MaxFiles }
    /\ spc = "for"
    /\ fileIdx = 0
    /\ f = "none"
    /\ Events = <<>>
    /\ A = ZeroA
    /\ b = Zerob
    /\ x = <<Zero, Zero>>
    /\ normalisedEvents = <<>>
    /\ allNormalisedReads = <<>>
    /\ HairpinIdle
    /\ AlignIdle

\* f = h5py.File(f5File,'r')
SerialOpen ==
    /\ spc = "for"
    /\ fileIdx < Len(fast5Files)
    /\ fast5Files[fileIdx + 1].kind # "corrupt"
    /\ fileIdx' = fileIdx + 1
    /\ f' = "open"
    /\ spc' = "path"
    /\ UNCHANGED <<avars, hvars, fast5Files, Events, A, b, x, normalisedEvents, allNormalisedReads>>

\* h5py.File raises IOError: nothing catches it.
SerialOpenFails ==
    /\ spc = "for"
    /\ fileIdx < Len(fast5Files)
    /\ fast5Files[fileIdx + 1].kind = "corrupt"
    /\ fileIdx' = fileIdx + 1
    /\ spc' = "raised"
    /\ UNCHANGED <<avars, hvars, fast5Files, f, Events, A, b, x, normalisedEvents, allNormalisedReads>>

\* Events = f[path]; A = np.zeros((2,2)); b = np.zeros((2,1))
SerialEvents ==
    /\ spc = "path"
    /\ fast5Files[fileIdx].kind = "events"
    /\ Events' = fast5Files[fileIdx].events
    /\ A' = ZeroA
    /\ b' = Zerob
    /\ spc' = "accumulate"
    /\ UNCHANGED <<avars, hvars, fast5Files, fileIdx, f, x, normalisedEvents, allNormalisedReads>>

\* f[path] raises KeyError: nothing catches it.
SerialPathMissing ==
    /\ spc = "path"
    /\ fast5Files[fileIdx].kind = "nopath"
    /\ spc' = "raised"
    /\ UNCHANGED <<avars, hvars, fast5Files, fileIdx, f, Events, A, b, x, normalisedEvents, allNormalisedReads>>

\* the first loop over Events, then A[0,1] = A[1,0]
SerialAccumulate ==
    /\ spc = "accumulate"
    /\ LET r == Accumulate(Events, A, b) IN
        /\ r.status = "ok"
        /\ A' = Symmetrise(r.A)
        /\ b' = r.b
    /\ spc' = "solve"
    /\ UNCHANGED <<avars, hvars, fast5Files, fileIdx, f, Events, x, normalisedEvents, allNormalisedReads>>

\* kmer2MeanStd[model_5mer] raises KeyError inside the first loop.
SerialKmerMissing ==
    /\ spc = "accumulate"
    /\ LET r == Accumulate(Events, A, b) IN
        /\ r.status = "KeyError"
        /\ A' = r.A
        /\ b' = r.b
    /\ spc' = "raised"
    /\ UNCHANGED <<avars, hvars, fast5Files, fileIdx, f, Events, x, normalisedEvents, allNormalisedReads>>

\* x = np.linalg.solve(A,b); shift = x[0][0]; scale = x[1][0]
SerialSolve ==
    /\ spc = "solve"
    /\ Solve(A, b).status = "ok"
    /\ x' = <<Solve(A, b).shift, Solve(A, b).scale>>
    /\ spc' = "normalise"
    /\ UNCHANGED <<avars, hvars, fast5Files, fileIdx, f, Events, A, b, normalisedEvents, allNormalisedReads>>

SerialSingular ==
    /\ spc = "solve"
    /\ Solve(A, b).status = "LinAlgError"
    /\ spc' = "raised"
    /\ UNCHANGED <<avars, hvars, fast5Files, fileIdx, f, Events, A, b, x, normalisedEvents, allNormalisedReads>>

\* the second loop over Events
SerialNormalise ==
    /\ spc = "normalise"
    /\ normalisedEvents' = NormaliseEvents(Events, x[1], x[2])
    /\ spc' = "append"
    /\ UNCHANGED <<avars, hvars, fast5Files, fileIdx, f, Events, A, b, x, allNormalisedReads>>

\* allNormalisedReads.append(normalisedEvents)
SerialAppend ==
    /\ spc = "append"
    /\ allNormalisedReads' = Append(allNormalisedReads, normalisedEvents)
    /\ spc' = "close"
    /\ UNCHANGED <<avars, hvars, fast5Files, fileIdx, f, Events, A, b, x, normalisedEvents>>

\* f.close()
SerialClose ==
    /\ spc = "close"
    /\ f' = "closed"
    /\ spc' = "for"
    /\ UNCHANGED <<avars, hvars, fast5Files, fileIdx, Events, A, b, x, normalisedEvents, allNormalisedReads>>

\* return allNormalisedReads
SerialReturn ==
    /\ spc = "for"
    /\ fileIdx = Len(fast5Files)
    /\ spc' = "returned"
    /\ UNCHANGED <<avars, hvars, fast5Files, fileIdx, f, Events, A, b, x, normalisedEvents, allNormalisedReads>>

NextSerial ==
    \/ SerialOpen
    \/ SerialOpenFails
    \/ SerialEvents
    \/ SerialPathMissing
    \/ SerialAccumulate
    \/ SerialKmerMissing
    \/ SerialSolve
    \/ SerialSingular
    \/ SerialNormalise
    \/ SerialAppend
    \/ SerialClose
    \/ SerialReturn

SpecSerial == InitSerial /\ [][NextSerial]_vars

\* ------------------------------------------- import_HairpinTrainingData
InitScan ==
    /\ SerialIdle
    /\ AlignIdle
    /\ hpc = "scan"
    /\ nRecords = 0
    /\ sequence = <<>>
    /\ readID = ""
    /\ kmer2Files = EmptyMap
    /\ readsThreshold \in 1..MaxThreshold
    /\ filteredKmer2Files = EmptyMap
    /\ task = EmptyMap
    /\ dispatched = <<>>
    /\ normalisedReadsTuples = <<>>
    /\ merged = 0
    /\ kmer2normalisedReads = EmptyMap

Init == InitScan

\* The scan alone does not depend on readsThreshold.
InitScanOnly == InitScan /\ readsThreshold = 1

\* One iteration of the loop over the records of the BAM file.
ProcessRecord(s, id) ==
    /\ hpc = "scan"
    /\ nRecords' = nRecords + 1
    /\ sequence' = s
    /\ readID' = id
    /\ kmer2Files' = AddRead(kmer2Files, s, id)
    /\ UNCHANGED <<avars, svars, hpc, readsThreshold, filteredKmer2Files, task, dispatched,
                   normalisedReadsTuples, merged, kmer2normalisedReads>>

\* len(kmer2Files[key]) >= readsThreshold
KeepBucket(files, threshold) == Len(files) >= threshold

NewTask == [st |-> "pending", i |-> 0, f |-> "none", allNormalisedReads |-> <<>>]

\* The end of the BAM file, and the filter on the number of reads; the
\* generator of delayed calls is set up, none is dispatched yet.
FilterBuckets ==
    /\ hpc = "scan"
    /\ LET kept == {key \in DOMAIN kmer2Files : KeepBucket(kmer2Files[key], readsThreshold)} IN
        /\ filteredKmer2Files' = [key \in kept |-> kmer2Files[key]]
        /\ task' = [key \in kept |-> NewTask]
    /\ hpc' = "parallel"
    /\ UNCHANGED <<avars, svars, nRecords, sequence, readID, kmer2Files, readsThreshold, dispatched,
                   normalisedReadsTuples, merged, kmer2normalisedReads>>

\* Parallel hands the next delayed call to a worker.  Calls are dispatched
\* as workers become free, and no longer once the parent has raised.
Dispatch(key) ==
    /\ hpc = "parallel"
    /\ task[key].st = "pending"
    /\ task' = [task EXCEPT ![key].st = "for"]
    /\ dispatched' = Append(dispatched, key)
    /\ UNCHANGED <<avars, svars, hpc, nRecords, sequence, readID, kmer2Files, readsThreshold,
                   filteredKmer2Files, normalisedReadsTuples, merged, kmer2normalisedReads>>

\* In the task of key: f = h5py.File(f5File,'r')
TaskOpen(key) ==
    /\ hpc = "parallel"
    /\ task[key].st = "for"
    /\ task[key].i < Len(filteredKmer2Files[key])
    /\ fast5[filteredKmer2Files[key][task[key].i + 1]].kind # "corrupt"
    /\ task' = [task EXCEPT ![key].st = "opened", ![key].i = @ + 1, ![key].f = "open"]
    /\ UNCHANGED <<avars, svars, hpc, nRecords, sequence, readID, kmer2Files, readsThreshold,
                   filteredKmer2Files, dispatched, normalisedReadsTuples, merged,
                   kmer2normalisedReads>>

\* h5py.File raises IOError, which ends the task.
TaskOpenFails(key) ==
    /\ hpc = "parallel"
    /\ task[key].st = "for"
    /\ task[key].i < Len(filteredKmer2Files[key])
    /\ fast5[filteredKmer2Files[key][task[key].i + 1]].kind = "corrupt"
    /\ task' = [task EXCEPT ![key].st = "failed", ![key].i = @ + 1]
    /\ UNCHANGED <<avars, svars, hpc, nRecords, sequence, readID, kmer2Files, readsThreshold,
                   filteredKmer2Files, dispatched, normalisedReadsTuples, merged,
                   kmer2normalisedReads>>

\* allNormalisedReads.append(normalisedEvents)
TaskAppend(reads, normalised) == Append(reads, normalised)

\* From Events = f[path] to allNormalisedReads.append(normalisedEvents).
TaskNormalise(key) ==
    /\ hpc = "parallel"
    /\ task[key].st = "opened"
    /\ LET r == NormaliseRead(fast5[filteredKmer2Files[key][task[key].i]]) IN
        /\ r.status = "ok"
        /\ task' = [task EXCEPT ![key].st = "normalised",
                                ![key].allNormalisedReads = TaskAppend(@, r.normalisedEvents)]
    /\ UNCHANGED <<avars, svars, hpc, nRecords, sequence, readID, kmer2Files, readsThreshold,
                   filteredKmer2Files, dispatched, normalisedReadsTuples, merged,
                   kmer2normalisedReads>>

\* f[path], kmer2MeanStd[model_5mer] or np.linalg.solve raises, which ends
\* the task before f.close().
TaskRaises(key) ==
    /\ hpc = "parallel"
    /\ task[key].st = "opened"
    /\ NormaliseRead(fast5[filteredKmer2Files[key][task[key].i]]).status # "ok"
    /\ task' = [task EXCEPT ![key].st = "failed"]
    /\ UNCHANGED <<avars, svars, hpc, nRecords, sequence, readID, kmer2Files, readsThreshold,
                   filteredKmer2Files, dispatched, normalisedReadsTuples, merged,
                   kmer2normalisedReads>>

\* f.close()
TaskClose(key) ==
    /\ hpc = "parallel"
    /\ task[key].st = "normalised"
    /\ task' = [task EXCEPT ![key].st = "for", ![key].f = "closed"]
    /\ UNCHANGED <<avars, svars, hpc, nRecords, sequence, readID, kmer2Files, readsThreshold,
                   filteredKmer2Files, dispatched, normalisedReadsTuples, merged,
                   kmer2normalisedReads>>

\* return (kmer, allNormalisedReads)
TaskReturn(key) ==
    /\ hpc = "parallel"
    /\ task[key].st = "for"
    /\ task[key].i = Len(filteredKmer2Files[key])
    /\ task' = [task EXCEPT ![key].st = "done"]
    /\ UNCHANGED <<avars, svars, hpc, nRecords, sequence, readID, kmer2Files, readsThreshold,
                   filteredKmer2Files, dispatched, normalisedReadsTuples, merged,
                   kmer2normalisedReads>>

\* Parallel re-raises the exception of a failed task in the caller; the
\* workers are stopped, and import_HairpinTrainingData returns nothing.
ParallelRaises ==
    /\ hpc = "parallel"
    /\ \E key \in DOMAIN task : task[key].st = "failed"
    /\ hpc' = "raised"
    /\ UNCHANGED <<avars, svars, nRecords, sequence, readID, kmer2Files, readsThreshold,
                   filteredKmer2Files, task, dispatched, normalisedReadsTuples, merged,
                   kmer2normalisedReads>>

\* Every call has returned: the list of results, in the order of the calls.
ParallelReturns ==
    /\ hpc = "parallel"
    /\ \A key \in DOMAIN task : task[key].st = "done"
    /\ normalisedReadsTuples' =
          [n \in 1..Len(dispatched) |-> <<dispatched[n], task[dispatched[n]].allNormalisedReads>>]
    /\ hpc' = "merge"
    /\ UNCHANGED <<avars, svars, nRecords, sequence, readID, kmer2Files, readsThreshold,
                   filteredKmer2Files, task, dispatched, merged, kmer2normalisedReads>>

\* MergeKey taking the key of the first tuple for every entry.
MergeKey_First(tuples, n) == tuples[1][1]

\* entry[0] of the n-th tuple
MergeKey(tuples, n) == tuples[n][1]

\* kmer2normalisedReads[entry[0]] = entry[1]
MergeEntry ==
    /\ hpc = "merge"
    /\ merged < Len(normalisedReadsTuples)
    /\ merged' = merged + 1
    /\ kmer2normalisedReads' =
          (MergeKey(normalisedReadsTuples, merged + 1) :> normalisedReadsTuples[merged + 1][2])
              @@ kmer2normalisedReads
    /\ UNCHANGED <<avars, svars, hpc, nRecords, sequence, readID, kmer2Files, readsThreshold,
                   filteredKmer2Files, task, dispatched, normalisedReadsTuples>>

\* return kmer2normalisedReads
Return ==
    /\ hpc = "merge"
    /\ merged = Len(normalisedReadsTuples)
    /\ hpc' = "returned"
    /\ UNCHANGED <<avars, svars, nRecords, sequence, readID, kmer2Files, readsThreshold,
                   filteredKmer2Files, task, dispatched, normalisedReadsTuples, merged,
                   kmer2normalisedReads>>

Next ==
    \/ \E s \in RunSequences, id \in ReadIDs : nRecords < MaxRecords /\ ProcessRecord(s, id)
    \/ FilterBuckets
    \/ \E key \in DOMAIN task : Dispatch(key)
    \/ \E key \in DOMAIN task : TaskOpen(key)
    \/ \E key \in DOMAIN task : TaskOpenFails(key)
    \/ \E key \in DOMAIN task : TaskNormalise(key)
    \/ \E key \in DOMAIN task : TaskRaises(key)
    \/ \E key \in DOMAIN task : TaskClose(key)
    \/ \E key \in DOMAIN task : TaskReturn(key)
    \/ ParallelRaises
    \/ ParallelReturns
    \/ MergeEntry
    \/ Return

Spec == Init /\ [][Next]_vars

\* The scan of the BAM file alone: BAM files of at most MaxScanRecords
\* records, the last with any read sequence of Sequences, the records before
\* it with a read sequence of RunSequences.
NextScan ==
    \E s \in Sequences, id \in ScanReadIDs :
        /\ nRecords < MaxScanRecords
        /\ sequence \in RunSequences \cup {<<>>}
        /\ ProcessRecord(s, id)

SpecScan == InitScanOnly /\ [][NextScan]_vars

\* --------------------------------------------------------- alignAndSort
\* One output file per reference has been opened; no record is read yet.
InitAlign ==
    /\ SerialIdle
    /\ HairpinIdle
    /\ apc = "records"
    /\ nAligned = 0
    /\ record = NoRecord
    /\ out_files = [r \in 0..(Len(lengths) - 1) |-> <<>>]

\* A record without aend or query_alignment_length: continue.
SkipRecord(rec) ==
    /\ apc = "records"
    /\ Unavailable(rec)
    /\ nAligned' = nAligned + 1
    /\ record' = rec
    /\ UNCHANGED <<svars, hvars, apc, out_files>>

\* A record that fails the quality control is not written.
RejectRecord(rec) ==
    /\ apc = "records"
    /\ ~Unavailable(rec)
    /\ ~PassesQualityControl(rec)
    /\ nAligned' = nAligned + 1
    /\ record' = rec
    /\ UNCHANGED <<svars, hvars, apc, out_files>>

\* out_files[record.reference_id].write(record)
WriteRecord(rec) ==
    /\ apc = "records"
    /\ ~Unavailable(rec)
    /\ PassesQualityControl(rec)
    /\ nAligned' = nAligned + 1
    /\ record' = rec
    /\ out_files' = [out_files EXCEPT ![rec.reference_id] = Append(@, rec)]
    /\ UNCHANGED <<svars, hvars, apc>>

\* The end of alignments.sorted.bam: the new BAM files are indexed.
IndexBamFiles ==
    /\ apc = "records"
    /\ apc' = "indexed"
    /\ UNCHANGED <<svars, hvars, nAligned, record, out_files>>

\* Files of at most MaxAlignRecords records, the last any record of Records,
\* the records before it records of LeadingRecords.
MoreRecords == nAligned < MaxAlignRecords /\ record \in LeadingRecords \cup {NoRecord}

NextAlign ==
    \/ \E rec \in Records : MoreRecords /\ SkipRecord(rec)
    \/ \E rec \in Records : MoreRecords /\ RejectRecord(rec)
    \/ \E rec \in Records : MoreRecords /\ WriteRecord(rec)
    \/ IndexBamFiles

SpecAlign == InitAlign /\ [][NextAlign]_vars

\* -------------------------------------- properties of the motif resolver
\* The 0-based positions of s where a 7mer with A in the middle lies between
\* an occurrence of startMotif and an occurrence of endMotif.
FlankedPositions(s) ==
    { i \in 0..Len(s) :
        /\ i >= Len(start)
        /\ i + 7 + Len(end) <= Len(s)
        /\ \A j \in 1..Len(start) : s[i - Len(start) + j] = start[j]
        /\ \A j \in 1..Len(end) : s[i + 7 + j] = end[j]
        /\ s[i + 4] = "A" }

SevenMerAt(s, i) == [j \in 1..7 |-> s[i + j]]

\* The distinct candidate 7mers of s.
CandidateSet(s) == { SevenMerAt(s, i) : i \in FlankedPositions(s) }

OccursAt(sub, s, i) ==
    /\ i + Len(sub) <= Len(s)
    /\ \A j \in 1..Len(sub) : s[i + j] = sub[j]

\* The reverse complement of c occurs before the first occurrence of c.
ReverseComplementUpstream(s, c) ==
    \E i \in 0..Len(s) :
        /\ OccursAt(reverseComplement(c), s, i)
        /\ \A j \in 0..i : ~OccursAt(c, s, j)

\* The step appends readID to the bucket of c, creating it if need be.
AddedTo(c) ==
    /\ c \in DOMAIN kmer2Files'
    /\ kmer2Files'[c] = (IF c \in DOMAIN kmer2Files THEN kmer2Files[c] ELSE <<>>) \o <<readID'>>

RecordStep == nRecords' = nRecords + 1

\* C1 as stated: the read of a record is added to bucket c iff the set of
\* distinct candidates of its sequence is {c} and the reverse complement of c
\* occurs upstream of c.
C1_AcceptedIffUniqueCandidate ==
    [][RecordStep =>
        \A c \in CandidateSet(sequence') \cup DOMAIN kmer2Files' :
            AddedTo(c) <=> /\ CandidateSet(sequence') = {c}
                           /\ ReverseComplementUpstream(sequence', c)]_vars

\* C1 amended: the read of a record is added to bucket c iff its sequence
\* has exactly one flanked occurrence of a candidate, the candidate is c, and
\* the reverse complement of c occurs before the first occurrence of c.
C1_AcceptedIffOneOccurrence ==
    [][RecordStep =>
        \A c \in CandidateSet(sequence') \cup DOMAIN kmer2Files' :
            AddedTo(c) <=> /\ Cardinality(FlankedPositions(sequence')) = 1
                           /\ CandidateSet(sequence') = {c}
                           /\ ReverseComplementUpstream(sequence', c)]_vars

\* The second record is a hairpin read and went to the bucket of the first.
C1_Witness ==
    /\ nRecords = 2
    /\ Cardinality(FlankedPositions(sequence)) = 1
    /\ \E c \in DOMAIN kmer2Files :
        /\ CandidateSet(sequence) = {c}
        /\ ReverseComplementUpstream(sequence, c)
        /\ Len(kmer2Files[c]) = 2
        /\ kmer2Files[c][2] = readID

\* No candidate, several distinct candidates, or one candidate whose reverse
\* complement is missing or not upstream.
Discarded(s) ==
    \/ CandidateSet(s) = {}
    \/ Cardinality(CandidateSet(s)) >= 2
    \/ \E c \in CandidateSet(s) : ~ReverseComplementUpstream(s, c)

\* C2: a record whose sequence has no candidate, several distinct candidates,
\* or one candidate without its reverse complement upstream leaves kmer2Files
\* unchanged.
C2_DiscardedLeavesBuckets ==
    [][RecordStep /\ Discarded(sequence') => kmer2Files' = kmer2Files]_vars

\* A read with two distinct candidates was discarded after a read was kept.
C2_Witness ==
    /\ nRecords = 2
    /\ Cardinality(CandidateSet(sequence)) = 2
    /\ \E c \in CandidateSet(sequence) : ReverseComplementUpstream(sequence, c)
    /\ \E c \in DOMAIN kmer2Files : Len(kmer2Files[c]) = 1

RECURSIVE Occurrences(_, _)
Occurrences(id, files) ==
    IF files = <<>> THEN 0
    ELSE (IF Head(files) = id THEN 1 ELSE 0) + Occurrences(id, Tail(files))

RECURSIVE OccurrencesIn(_, _, _)
OccurrencesIn(id, k2f, keys) ==
    IF keys = {} THEN 0
    ELSE LET key == CHOOSE k \in keys : TRUE IN
         Occurrences(id, k2f[key]) + OccurrencesIn(id, k2f, keys \ {key})

\* C6: every read identifier is in at most one bucket, at most once.
C6_ReadInOneBucket ==
    \A id \in ReadIDs : OccurrencesIn(id, kmer2Files, DOMAIN kmer2Files) <= 1

\* ------------------------------------------- properties of the aggregator
Retained == {key \in DOMAIN kmer2Files : Len(kmer2Files[key]) >= readsThreshold}

TimesDispatched(key) == Occurrences(key, dispatched)

\* C3: a bucket with fewer than readsThreshold reads is never dispatched and
\* never a key of the returned mapping; every bucket with at least
\* readsThreshold reads is dispatched exactly once.
C3_ThresholdAndDispatch ==
    /\ \A key \in DOMAIN kmer2Files \ Retained :
        /\ TimesDispatched(key) = 0
        /\ key \notin DOMAIN kmer2normalisedReads
    /\ hpc \in {"returned", "raised"} => \A key \in Retained : TimesDispatched(key) = 1

\* The normalised events of the reads of files that can be normalised.
RECURSIVE SucceededReads(_)
SucceededReads(files) ==
    IF files = <<>> THEN <<>>
    ELSE LET r == NormaliseRead(fast5[Head(files)]) IN
         IF r.status = "ok" THEN <<r.normalisedEvents>> \o SucceededReads(Tail(files))
         ELSE SucceededReads(Tail(files))

\* C4: a read that cannot be normalised is skipped; the other reads of its
\* bucket and the other buckets are normalised and returned.
C4_FailureIsLocal ==
    /\ hpc # "raised"
    /\ hpc = "returned" =>
        /\ DOMAIN kmer2normalisedReads = Retained
        /\ \A key \in Retained : kmer2normalisedReads[key] = SucceededReads(kmer2Files[key])

\* C5: a container is open only while its read is being processed.
C5_HandleClosed ==
    \A key \in DOMAIN task : task[key].f = "open" => task[key].st \in {"opened", "normalised"}

\* The result of the task of a bucket, computed on its own.
BucketResult(files) == [n \in 1..Len(files) |-> NormaliseRead(fast5[files[n]]).normalisedEvents]

\* C8: whatever the order of the tasks, the returned mapping has exactly the
\* retained buckets as keys, each with the result of its own task.
C8_MergeIsOrderIndependent ==
    hpc = "returned" =>
        /\ DOMAIN kmer2normalisedReads = Retained
        /\ \A key \in Retained : kmer2normalisedReads[key] = BucketResult(kmer2Files[key])

\* Two buckets were returned, with different results, one of two reads.
C8_Witness ==
    /\ hpc = "returned"
    /\ Cardinality(DOMAIN kmer2normalisedReads) = 2
    /\ \E k1, k2 \in DOMAIN kmer2normalisedReads :
        /\ kmer2normalisedReads[k1] # kmer2normalisedReads[k2]
        /\ Len(kmer2normalisedReads[k1]) = 2
        /\ kmer2normalisedReads[k1][1] # kmer2normalisedReads[k1][2]

\* ------------------------------------------ properties of the normaliser
\* The events of a file that pass the confidence filter, in file order.
QualifyingEvents(events) == SelectSeq(events, LAMBDA e : e.p_model_state > 30)

Weight(event) ==
    LET sd == kmer2MeanStd[event.model_5mer][2] IN Rat(sd[2] * sd[2], sd[1] * sd[1])

RECURSIVE SumWeights(_)
SumWeights(events) ==
    IF events = <<>> THEN Zero ELSE RatAdd(Weight(Head(events)), SumWeights(Tail(events)))

RECURSIVE SumWeightedMeans(_)
SumWeightedMeans(events) ==
    IF events = <<>> THEN Zero
    ELSE RatAdd(RatMul(Weight(Head(events)), Head(events).mean), SumWeightedMeans(Tail(events)))

\* out is the normalisation of events under the calibration (sh, sc).
IsNormalisationOf(out, events, sh, sc) ==
    LET q == QualifyingEvents(events) IN
    /\ Len(out) = Len(q)
    /\ \A i \in 1..Len(q) :
        IF sc = Zero THEN out[i][2] = 0
        ELSE RatMul(RatAdd(out[i], sh), sc) = q[i].mean

\* C7: the normalised events of a read are, in event order, eventMean/scale -
\* shift of exactly the events with confidence > 0.30, which are the events
\* summed in the calibration; allNormalisedReads holds one such sequence per
\* read, in the order of the read list.
C7_NormalisedEvents ==
    /\ spc \in {"append", "close"} =>
        /\ IsNormalisationOf(normalisedEvents, Events, x[1], x[2])
        /\ A[1][1] = SumWeights(QualifyingEvents(Events))
        /\ b[1] = SumWeightedMeans(QualifyingEvents(Events))
    /\ spc = "close" => allNormalisedReads[fileIdx] = normalisedEvents
    /\ Len(allNormalisedReads) <= fileIdx
    /\ spc \in {"for", "returned"} => Len(allNormalisedReads) = fileIdx
    /\ \A j \in 1..Len(allNormalisedReads) :
        LET c == Calibration(fast5Files[j].events) IN
        /\ c.status = "ok"
        /\ IsNormalisationOf(allNormalisedReads[j], fast5Files[j].events, c.shift, c.scale)

\* Two reads were normalised; the first has a low-confidence event between
\* two qualifying ones, and the two reads have different results.
C7_Witness ==
    /\ spc = "returned"
    /\ Len(allNormalisedReads) = 2
    /\ allNormalisedReads[1] # allNormalisedReads[2]
    /\ fast5Files[1] # Good2
    /\ Len(allNormalisedReads[1]) = 2
    /\ Len(fast5Files[1].events) = 3
    /\ fast5Files[1].events[2].p_model_state = 30
    /\ allNormalisedReads[1][1] # allNormalisedReads[1][2]

Permuted(events, p) == [i \in 1..Len(events) |-> events[p[i]]]

\* C9: the accumulated A and b, and the solved (shift, scale), are the same
\* for every permutation of the read's events.
C9_OrderInvariant ==
    spc \in {"solve", "normalise"} =>
        \A p \in Permutations(1..Len(Events)) :
            LET r == Accumulate(Permuted(Events, p), ZeroA, Zerob) IN
            /\ r.status = "ok"
            /\ Symmetrise(r.A) = A
            /\ r.b = b
            /\ spc = "normalise" =>
                /\ Calibration(Permuted(Events, p)).status = "ok"
                /\ x = <<Calibration(Permuted(Events, p)).shift,
                         Calibration(Permuted(Events, p)).scale>>

\* A read of three events with three different weights or means was solved.
C9_Witness ==
    /\ spc = "normalise"
    /\ Len(Events) >= 3
    /\ Events[1] # Events[2]
    /\ Events[2] # Events[3]
    /\ Events[1] # Events[3]
    /\ Len(QualifyingEvents(Events)) >= 3

Drop(events, i) == SubSeq(events, 1, i - 1) \o SubSeq(events, i + 1, Len(events))

QualifyingIndices(events) == {i \in 1..Len(events) : events[i].p_model_state > 30}

\* C10 as stated: removing any single qualifying event from a solvable read
\* changes the resulting (shift, scale).
C10_DropAlwaysChanges ==
    spc = "normalise" =>
        \A i \in QualifyingIndices(Events) :
            LET c == Calibration(Drop(Events, i)) IN
            c.status = "ok" => <<c.shift, c.scale>> # x

\* The residual of an event under the calibration (sh, sc).
Residual(event, sh, sc) ==
    RatSub(event.mean, RatAdd(sh, RatMul(sc, kmer2MeanStd[event.model_5mer][1])))

\* C10 amended: when the remaining events are still solvable, removing a
\* qualifying event changes (shift, scale) exactly when the event's mean
\* differs from shift + scale * modelMean of its 5mer.
C10_DropChangesIffOffLine ==
    spc = "normalise" =>
        \A i \in QualifyingIndices(Events) :
            LET c == Calibration(Drop(Events, i)) IN
            c.status = "ok" =>
                (<<c.shift, c.scale>> # x <=> Residual(Events[i], x[1], x[2]) # Zero)

\* A solvable read with an event whose removal leaves a solvable read with a
\* different calibration.
C10_Witness ==
    /\ spc = "normalise"
    /\ \E i \in QualifyingIndices(Events) :
        /\ Calibration(Drop(Events, i)).status = "ok"
        /\ <<Calibration(Drop(Events, i)).shift, Calibration(Drop(Events, i)).scale>> # x

\* ------------------------------------------- properties of alignAndSort
\* Both coverages above 4/5, on the forward strand, with the fields present.
KeptByClaim(rec) ==
    /\ rec.aend # None
    /\ rec.query_alignment_length # None
    /\ 5 * (rec.aend - rec.pos) > 4 * RefLength(rec.reference_id)
    /\ 5 * rec.query_alignment_length > 4 * rec.query_length
    /\ ~rec.is_reverse

AlignStep == nAligned' = nAligned + 1

\* C11: a record is written to the file of its reference iff its reference
\* coverage and its query coverage are above 0.8 and it is not reverse-strand;
\* a record of query coverage 0.75 is written nowhere, a forward record with
\* both coverages above 0.8 is written, and no other file changes.
C11_WrittenIffCovered ==
    [][AlignStep =>
        /\ \A r \in DOMAIN out_files :
            out_files'[r] = IF KeptByClaim(record') /\ r = record'.reference_id
                            THEN Append(out_files[r], record')
                            ELSE out_files[r]
        /\ 4 * record'.query_alignment_length = 3 * record'.query_length
              => out_files' = out_files
        /\ KeptByClaim(record') => record'.reference_id \in DOMAIN out_files]_vars

\* The second record, of the second reference, was written after a first
\* record was written to the file of the first reference.
C11_Witness ==
    /\ nAligned = 2
    /\ KeptByClaim(record)
    /\ record.reference_id = 1
    /\ Len(out_files[0]) = 1
    /\ Len(out_files[1]) = 1
    /\ out_files[1][1] = record

====
